---- MODULE Spec2Model ----
(***************************************************************************)
(* A model of the ISO 11783 virtual terminal object pool of                *)
(* isobus_virtual_terminal_objects.{hpp,cpp}: the byte-level decoders of   *)
(* the object variants, the ObjectPool registry with parse and get_object, *)
(* the attribute protocol, the semantic setters and the change callbacks.  *)
(*                                                                         *)
(* Three specifications share the variables and the operators:             *)
(*   Spec         loads byte buffers into one ObjectPool                   *)
(*                (ObjectPool::parse);                                     *)
(*   SpecLookup   also looks objects up (ObjectPool::get_object);          *)
(*   SpecObjects  loads a well-formed pool, constructs objects directly,   *)
(*                registers callbacks and mutates objects.                 *)
(***************************************************************************)
EXTENDS Integers, Sequences, FiniteSets, TLC

VARIABLES
    objects,      \* ObjectPool::objects, std::map objectID -> VTObject
    versionHash,  \* ObjectPool::versionHash
    solo,         \* an object constructed directly by the caller, or NoObject
    parseCount,   \* ObjectPool::parse calls made so far
    mutations,    \* mutation calls made so far
    crashed,      \* the process died on an unmapped read
    registered,   \* the register_update_callback calls made: their number,
                  \* and for each live object the callbacks in call order
    last          \* the most recent call: its arguments, results and pre-state

vars ==
    <<objects, versionHash, solo, parseCount, mutations, crashed, registered,
      last>>

----------------------------------------------------------------------------
(* Bounds of the model *)

\* ObjectPool::parse calls per behaviour
MaxParses == 2
\* records per generated pool
MaxRecords == 2
\* readable garbage bytes that follow a buffer in memory
MaxTail == 12
\* callbacks registered per behaviour
MaxCallbacks == 2
\* mutation calls per behaviour
MaxMutations == 1

----------------------------------------------------------------------------
(* Program constants *)

WorkingSet == 0
DataMask == 1
AlarmMask == 2
Container == 3
SoftKeyMask == 4
NULL_OBJECT_ID == 65535

----------------------------------------------------------------------------
(* Bytes and memory *)

Lo(v) == v % 256
U16(v) == <<Lo(v), (v \div 256) % 256>>

RECURSIVE Pow2(_)
Pow2(n) == IF n = 0 THEN 1 ELSE 2 * Pow2(n - 1)

\* A buffer in memory: its bytes, then readable garbage, then unmapped
\* memory.  Positions count from 1; End is the position of bytes.end().
End(m) == Len(m.bytes) + 1
Mem(m, p) ==
    IF p <= Len(m.bytes) THEN m.bytes[p]
    ELSE IF p <= Len(m.bytes) + Len(m.tail) THEN m.tail[p - Len(m.bytes)]
    ELSE 0

\* The cursor: the iterator, whether a read went at or past end(), whether a
\* read hit unmapped memory, and the Error diagnostics logged.
NewCursor == [it |-> 1, oob |-> FALSE, crash |-> FALSE, errs |-> 0]

\* *(it + k): a read without a bounds check
DerefAt(m, c, k) ==
    [v |-> Mem(m, c.it + k),
     c |-> [c EXCEPT !.oob = @ \/ (c.it + k > Len(m.bytes)),
                     !.crash = @ \/ (c.it + k > Len(m.bytes) + Len(m.tail))]]

\* *it++
ReadInc(m, c) ==
    LET d == DerefAt(m, c, 0) IN [v |-> d.v, c |-> [d.c EXCEPT !.it = @ + 1]]

\* a cursor left where it is; the claims about the bytes a decoder consumes
\* must tell it from Skip
Stay(c) == c

\* it++
Skip(c) == [c EXCEPT !.it = @ + 1]

LogError(c) == [c EXCEPT !.errs = @ + 1]

\* a decoder that takes the first byte as the most significant one; the
\* claims about decoded IDs must tell it from convert_loop
RECURSIVE convert_high_first(_, _, _, _, _)
convert_high_first(m, c, size, i, value) ==
    IF i >= size THEN [v |-> value, c |-> c]
    ELSE IF c.it = End(m) THEN [v |-> value, c |-> LogError(c)]
    ELSE LET r == ReadInc(m, c)
         IN convert_high_first(m, r.c, size, i + 1, value * 256 + r.v)

RECURSIVE convert_loop(_, _, _, _, _)
convert_loop(m, c, size, i, value) ==
    IF i >= size THEN [v |-> value, c |-> c]
    ELSE IF c.it = End(m) THEN [v |-> value, c |-> LogError(c)]
    ELSE LET r == ReadInc(m, c)
         IN convert_loop(m, r.c, size, i + 1, value + r.v * Pow2(8 * i))

\* convert_bytes_to<T>(it, end) for an unsigned T of `size` bytes.  The bytes
\* are OR-ed into disjoint bit ranges, which is their sum.
convert_bytes_to(m, c, size) ==
    LET r == ReadInc(m, c) IN convert_loop(m, r.c, size, 1, r.v)

\* the loop of convert_byte_vector_to<T>: byte i is shifted by i * 8 for
\* LittleEndian and by (sizeof(T) - i) * 8 for BigEndian, and OR-ed into
\* the value, whose bits it does not share
RECURSIVE convert_byte_vector_loop(_, _, _, _, _, _)
convert_byte_vector_loop(m, c, size, i, value, order) ==
    IF i >= size THEN [v |-> value, c |-> c]
    ELSE IF c.it = End(m) THEN [v |-> value, c |-> LogError(c)]
    ELSE LET r == ReadInc(m, c)
         IN convert_byte_vector_loop(
                m, r.c, size, i + 1,
                value + r.v * Pow2(8 * (IF order = "LittleEndian" THEN i
                                        ELSE size - i)),
                order)

\* convert_byte_vector_to<T>(it, end, order) for an unsigned T of `size`
\* bytes
convert_byte_vector_to(m, c, size, order) ==
    LET r == ReadInc(m, c)
    IN convert_byte_vector_loop(m, r.c, size, 1, r.v, order)

----------------------------------------------------------------------------
(* Objects *)

\* A freshly constructed object of a variant.  VTObject::objectID and the
\* WorkingSetObject fields have default member initializers; the fields of
\* the other variants have none and hold whatever `g` the memory held.
NewObject(type, inst, g) ==
    [type |-> type,
     inst |-> inst,
     objectID |-> 0,
     backgroundColour |-> IF type \in {DataMask, AlarmMask, SoftKeyMask}
                          THEN Lo(g) ELSE 0,
     selectable |-> FALSE,
     activeMask |-> 0,
     softKeyMask |-> IF type \in {DataMask, AlarmMask} THEN g ELSE 0,
     priority |-> IF type = AlarmMask THEN Lo(g) ELSE 0,
     acousticSignal |-> IF type = AlarmMask THEN Lo(g) ELSE 0,
     width |-> IF type = Container THEN g ELSE 0,
     height |-> IF type = Container THEN g ELSE 0,
     hidden |-> IF type = Container THEN (g # 0) ELSE FALSE,
     childObjects |-> <<>>,
     keyObjects |-> <<>>,
     childMacros |-> <<>>,
     childLanguages |-> <<>>,
     objectChangedCallbacks |-> <<>>]

\* a null std::shared_ptr<VTObject>
NoObject == NewObject(-1, 0, 0)

get_object_id(obj) == obj.objectID

\* a type query bound to the class that asks, which answers DataMask for an
\* AlarmMask object; the claims about the Type attribute must tell it from
\* the virtual get_object_type
get_static_object_type(obj) ==
    IF obj.type = AlarmMask THEN DataMask ELSE obj.type

get_object_type(obj) == obj.type

\* VTChildObjects is a std::map from child ID to coordinates: modelled as
\* the sequence of <<id, x, y>> its in-order traversal yields, sorted by ID
\* with no ID twice.
MapHas(map, id) == \E k \in 1..Len(map) : map[k][1] = id

MapIndex(map, id) == CHOOSE k \in 1..Len(map) : map[k][1] = id

\* std::map::emplace: inserts at the key's place unless the key is present
MapEmplace(map, id, x, y) ==
    IF MapHas(map, id) THEN map
    ELSE LET before == SelectSeq(map, LAMBDA e : e[1] < id)
             after == SelectSeq(map, LAMBDA e : e[1] > id)
         IN before \o <<<<id, x, y>>>> \o after

\* one child entry: objectID_t id, int16_t x_location, y_location, the
\* coordinates stored as the uint16_t of VTObjectCoordinates
ChildEntry(rid, rx, ry) == [c |-> ry.c, id |-> rid.v, x |-> rx.v, y |-> ry.v]

ReadChildY(m, rid, rx) == ChildEntry(rid, rx, convert_bytes_to(m, rx.c, 2))

ReadChildX(m, rid) == ReadChildY(m, rid, convert_bytes_to(m, rid.c, 2))

ReadChild(m, c) == ReadChildX(m, convert_bytes_to(m, c, 2))

RECURSIVE ReadChildren(_, _, _, _)

EmplaceChild(m, e, n, map) ==
    ReadChildren(m, e.c, n, MapEmplace(map, e.id, e.x, e.y))

\* for (i < numObjects) { id, x_location, y_location; childObjects.emplace }
\* (this loop and the next three end with the read that kills the process)
ReadChildren(m, c, n, map) ==
    IF n = 0 \/ c.crash THEN [c |-> c, list |-> map]
    ELSE EmplaceChild(m, ReadChild(m, c), n - 1, map)

RECURSIVE ReadMacros(_, _, _, _)

PushMacro(m, r, n, macros) == ReadMacros(m, r.c, n, Append(macros, r.v))

\* for (i < numMacros) childMacros.push_back(convert_bytes_to<uint16_t>)
ReadMacros(m, c, n, macros) ==
    IF n = 0 \/ c.crash THEN [c |-> c, list |-> macros]
    ELSE PushMacro(m, convert_bytes_to(m, c, 2), n - 1, macros)

RECURSIVE CString(_)
\* std::string(const char *): the characters before the first NUL
CString(chars) ==
    IF chars = <<>> \/ Head(chars) = 0 THEN <<>>
    ELSE <<Head(chars)>> \o CString(Tail(chars))

RECURSIVE ReadLanguages(_, _, _, _, _)

PushLanguage(m, r1, r2, n, langs, junk) ==
    ReadLanguages(m, r2.c, n,
                  Append(langs, CString(<<r1.v, r2.v>> \o junk)), junk)

ReadLanguage2(m, r1, n, langs, junk) ==
    PushLanguage(m, r1, ReadInc(m, r1.c), n, langs, junk)

\* char language[] = {*it++, *it++}; childLanguages.emplace_back(language):
\* the array has no terminating NUL, so the string runs on into the bytes
\* `junk` that follow it on the stack.
ReadLanguages(m, c, n, langs, junk) ==
    IF n = 0 \/ c.crash THEN [c |-> c, list |-> langs]
    ELSE ReadLanguage2(m, ReadInc(m, c), n - 1, langs, junk)

RECURSIVE ReadKeys(_, _, _, _)

PushKey(m, r, n, keys) == ReadKeys(m, r.c, n, Append(keys, r.v))

\* for (i < numObjects) childObjects.push_back(convert_bytes_to<objectID_t>)
ReadKeys(m, c, n, keys) ==
    IF n = 0 \/ c.crash THEN [c |-> c, list |-> keys]
    ELSE PushKey(m, convert_bytes_to(m, c, 2), n - 1, keys)

\* bytes.end() - it, a signed difference
Remaining(m, c) == End(m) - c.it

\* The decoder's progress: the cursor, the object being filled and the
\* counts read into locals (numObjects, numMacros, numLanguages).
Frame(c, obj) == [c |-> c, obj |-> obj, counts |-> <<>>]

SetField(f, name, r, v) ==
    [f EXCEPT !.c = r.c, !.obj = [@ EXCEPT ![name] = v]]

\* One statement of a decoder's fixed part:
\*   u16    this->field = convert_bytes_to<uint16_t>(it, bytes.end())
\*   u8     this->field = *it++
\*   bool   this->field = static_cast<bool>(*it++), or *it++ != 0
\*   skip   it++
\*   drop   *it++;
\*   count  std::uint8_t n = *it++, or convert_bytes_to<uint8_t>, which for
\*          one byte is the same unchecked read
ReadField(m, f, fd) ==
    CASE fd[1] = "u16" ->
           LET r == convert_bytes_to(m, f.c, 2) IN SetField(f, fd[2], r, r.v)
      [] fd[1] = "u8" ->
           LET r == ReadInc(m, f.c) IN SetField(f, fd[2], r, r.v)
      [] fd[1] = "bool" ->
           LET r == ReadInc(m, f.c) IN SetField(f, fd[2], r, r.v # 0)
      [] fd[1] = "skip" -> [f EXCEPT !.c = Skip(f.c)]
      [] fd[1] = "drop" -> [f EXCEPT !.c = ReadInc(m, f.c).c]
      [] fd[1] = "count" ->
           LET r == ReadInc(m, f.c)
           IN [f EXCEPT !.c = r.c, !.counts = Append(@, r.v)]

RECURSIVE ReadFields(_, _, _)
ReadFields(m, f, fields) ==
    IF fields = <<>> THEN f
    ELSE ReadFields(m, ReadField(m, f, Head(fields)), Tail(fields))

WorkingSetFields ==
    << <<"u16", "objectID">>, <<"skip">>, <<"u8", "backgroundColour">>,
       <<"bool", "selectable">>, <<"u16", "activeMask">>,
       <<"count">>, <<"count">>, <<"count">> >>

DataMaskFields ==
    << <<"u16", "objectID">>, <<"skip">>, <<"u8", "backgroundColour">>,
       <<"u16", "softKeyMask">>, <<"count">>, <<"count">> >>

AlarmMaskFields ==
    << <<"u16", "objectID">>, <<"skip">>, <<"u8", "backgroundColour">>,
       <<"u16", "softKeyMask">>, <<"u8", "priority">>,
       <<"u8", "acousticSignal">>, <<"count">>, <<"count">> >>

ContainerFields ==
    << <<"u16", "objectID">>, <<"drop">>, <<"u16", "width">>,
       <<"u16", "height">>, <<"bool", "hidden">>, <<"count">>, <<"count">> >>

SoftKeyMaskFields ==
    << <<"u16", "objectID">>, <<"drop">>, <<"u8", "backgroundColour">>,
       <<"count">>, <<"count">> >>

ParseFailed(f) == [ok |-> FALSE, obj |-> f.obj, c |-> LogError(f.c)]

\* the lists of a record, each stored as its loop ends
StoreLanguages(obj, lg) ==
    [ok |-> TRUE, obj |-> [obj EXCEPT !.childLanguages = lg.list], c |-> lg.c]

StoreMacros(obj, mc, ok) ==
    [ok |-> ok, obj |-> [obj EXCEPT !.childMacros = mc.list], c |-> mc.c]

MacrosThenLanguages(m, obj, mc, nl, junk) ==
    StoreLanguages([obj EXCEPT !.childMacros = mc.list],
                   ReadLanguages(m, mc.c, nl, obj.childLanguages, junk))

ChildrenThenMacros(m, obj, ch, nm, ok) ==
    StoreMacros([obj EXCEPT !.childObjects = ch.list],
                ReadMacros(m, ch.c, nm, obj.childMacros), ok)

KeysThenMacros(m, obj, ch, nm, ok) ==
    StoreMacros([obj EXCEPT !.keyObjects = ch.list],
                ReadMacros(m, ch.c, nm, obj.childMacros), ok)

\* a decoder that takes the language count for the macros and the macro
\* count for the languages; the claims about the order of the count bytes
\* must tell it from ChildrenMacrosLanguages
ChildrenLanguagesMacros(m, obj, ch, nm, nl, junk) ==
    MacrosThenLanguages(m, [obj EXCEPT !.childObjects = ch.list],
                        ReadMacros(m, ch.c, nl, obj.childMacros), nm, junk)

ChildrenMacrosLanguages(m, obj, ch, nm, nl, junk) ==
    MacrosThenLanguages(m, [obj EXCEPT !.childObjects = ch.list],
                        ReadMacros(m, ch.c, nm, obj.childMacros), nl, junk)

WorkingSetLists(m, f, junk) ==
    IF Remaining(m, f.c)
         < f.counts[1] * 6 + f.counts[2] * 2 + f.counts[3] * 2
    THEN ParseFailed(f)
    ELSE ChildrenMacrosLanguages(
             m, f.obj, ReadChildren(m, f.c, f.counts[1], f.obj.childObjects),
             f.counts[2], f.counts[3], junk)

\* WorkingSetObject::parse(bytes, it) on the object obj
WorkingSetObject_parse(m, c0, obj, junk) ==
    WorkingSetLists(m, ReadFields(m, Frame(c0, obj), WorkingSetFields), junk)

\* the size check and the loops DataMaskObject, AlarmMaskObject and
\* ContainerObject share
MaskLists(m, f) ==
    IF Remaining(m, f.c) < f.counts[1] * 6 + f.counts[2] * 2
    THEN ParseFailed(f)
    ELSE ChildrenThenMacros(
             m, f.obj, ReadChildren(m, f.c, f.counts[1], f.obj.childObjects),
             f.counts[2], TRUE)

\* DataMaskObject::parse(bytes, it)
DataMaskObject_parse(m, c0, obj) ==
    MaskLists(m, ReadFields(m, Frame(c0, obj), DataMaskFields))

\* AlarmMaskObject::parse(bytes, it)
AlarmMaskObject_parse(m, c0, obj) ==
    MaskLists(m, ReadFields(m, Frame(c0, obj), AlarmMaskFields))

\* ContainerObject::parse(bytes, it)
ContainerObject_parse(m, c0, obj) ==
    MaskLists(m, ReadFields(m, Frame(c0, obj), ContainerFields))

\* sizeof(objectID_t)
SizeofObjectId == 2

\* d < n where the ptrdiff_t d is converted to size_t for the comparison:
\* a negative d becomes a value above every sum of counts
SizeTLess(d, n) == d >= 0 /\ d < n

\* the last statement of SoftKeyMaskObject::parse: return false
SoftKeyMaskParsed == FALSE

SoftKeyMaskLists(m, f) ==
    IF SizeTLess(Remaining(m, f.c),
                 f.counts[1] * SizeofObjectId + f.counts[2] * SizeofObjectId)
    THEN ParseFailed(f)
    ELSE KeysThenMacros(
             m, f.obj, ReadKeys(m, f.c, f.counts[1], f.obj.keyObjects),
             f.counts[2], SoftKeyMaskParsed)

\* SoftKeyMaskObject::parse(bytes, it)
SoftKeyMaskObject_parse(m, c0, obj) ==
    SoftKeyMaskLists(m, ReadFields(m, Frame(c0, obj), SoftKeyMaskFields))

----------------------------------------------------------------------------
(* Attributes, change callbacks and mutations *)

\* the Attributes enumeration of each variant
WorkingSet_Type == 0
WorkingSet_BackgroundColour == 1
WorkingSet_Selectable == 2
WorkingSet_ActiveMask == 3
DataMask_Type == 0
DataMask_BackgroundColour == 1
DataMask_SoftKeyMask == 2
AlarmMask_Priority == 3
AlarmMask_AcousticSignal == 4
Container_Type == 0
Container_Width == 1
Container_Height == 2
Container_Hidden == 3
SoftKeyMask_Type == 0
SoftKeyMask_BackgroundColour == 1

\* Attribute::Type tags the code uses, and an Attribute value: the tag and
\* the member of the value union that goes with it
AttributeTypes == {"Uint8", "Uint16", "Boolean"}

Attribute(type, value) == [type |-> type, value |-> value]

\* a loop that calls the newest callback first; the claims about the order
\* of the calls must tell it from call_object_changed_callbacks
call_newest_callback_first(obj) ==
    [k \in 1..Len(obj.objectChangedCallbacks) |->
        <<obj.objectChangedCallbacks[Len(obj.objectChangedCallbacks) + 1 - k],
          obj.objectID>>]

\* VTObject::call_object_changed_callbacks: the calls made, each the callback
\* and its argument
call_object_changed_callbacks(obj) ==
    [k \in 1..Len(obj.objectChangedCallbacks) |->
        <<obj.objectChangedCallbacks[k], obj.objectID>>]

\* VTObject::register_update_callback
register_update_callback(obj, callback) ==
    [obj EXCEPT !.objectChangedCallbacks = Append(@, callback)]

\* A callback that mutates the object it is called for: unless the
\* background colour is ReentrantColour already, it calls
\* change_background_colour(ReentrantColour) on that object.
Recolour == "Recolour"
ReentrantColour == 10

\* call_object_changed_callbacks() on an object whose callbacks may mutate
\* it: the calls made, nested ones included, and the object when the loop
\* over `cbs` has ended.  A nested change_background_colour sets the field
\* and runs the loop over all callbacks again before the outer loop goes on.
RECURSIVE RunCallbacks(_, _, _)
RunCallbacks(obj, cbs, notified) ==
    IF cbs = <<>> THEN [obj |-> obj, notified |-> notified]
    ELSE IF Head(cbs) = Recolour /\ obj.backgroundColour # ReentrantColour
    THEN LET inner == RunCallbacks(
                          [obj EXCEPT !.backgroundColour = ReentrantColour],
                          obj.objectChangedCallbacks,
                          Append(notified, <<Head(cbs), obj.objectID>>))
         IN RunCallbacks(inner.obj, Tail(cbs), inner.notified)
    ELSE RunCallbacks(obj, Tail(cbs),
                      Append(notified, <<Head(cbs), obj.objectID>>))

\* this->backgroundColour = colour; call_object_changed_callbacks()
change_background_colour_observed(obj, colour) ==
    RunCallbacks([obj EXCEPT !.backgroundColour = colour],
                 obj.objectChangedCallbacks, <<>>)

\* what a call on an object did: the object after it, the value returned
\* ("void" where the method returns none), the callbacks called in order,
\* and the number of Error diagnostics logged
Done(obj, ret, notified, errs) ==
    [obj |-> obj, ret |-> ret, notified |-> notified, errs |-> errs]

\* the field is set, call_object_changed_callbacks(), return true
Changed(obj) == Done(obj, "true", call_object_changed_callbacks(obj), 0)

\* the same for a setter that returns nothing
ChangedVoid(obj) == Done(obj, "void", call_object_changed_callbacks(obj), 0)

\* an Error is logged, return false
Rejected(obj) == Done(obj, "false", <<>>, 1)

\* VTObjectWithChildObjects::change_child_position
change_child_position(obj, child, newX, newY) ==
    IF MapHas(obj.childObjects, child)
    THEN ChangedVoid([obj EXCEPT
             !.childObjects[MapIndex(obj.childObjects, child)] =
                 <<child, newX, newY>>])
    ELSE Done(obj, "void", <<>>, 1)

\* a change_child_location whose sums are not cut to 16 bits; the claims
\* about the coordinates must tell it from the real one
change_child_location_unbounded(obj, child, deltaX, deltaY) ==
    IF MapHas(obj.childObjects, child)
    THEN ChangedVoid([obj EXCEPT
             !.childObjects[MapIndex(obj.childObjects, child)] =
                 <<child, @[2] + deltaX, @[3] + deltaY>>])
    ELSE Done(obj, "void", <<>>, 1)

\* VTObjectWithChildObjects::change_child_location, the sums in uint16_t
change_child_location(obj, child, deltaX, deltaY) ==
    IF MapHas(obj.childObjects, child)
    THEN ChangedVoid([obj EXCEPT
             !.childObjects[MapIndex(obj.childObjects, child)] =
                 <<child, (@[2] + deltaX) % 65536, (@[3] + deltaY) % 65536>>])
    ELSE Done(obj, "void", <<>>, 1)

\* a change_attribute that accepts a background colour; the claims about
\* WorkingSetObject::change_attribute must tell it from the real one
WorkingSetObject_change_attribute_mutable(obj, id, newAttribute) ==
    IF id = WorkingSet_BackgroundColour /\ newAttribute.type = "Uint8"
    THEN Changed([obj EXCEPT !.backgroundColour = newAttribute.value])
    ELSE Rejected(obj)

\* WorkingSetObject::change_attribute
WorkingSetObject_change_attribute(obj, id, newAttribute) == Rejected(obj)

\* WorkingSetObject::change_active_mask
WorkingSetObject_change_active_mask(obj, mask) ==
    ChangedVoid([obj EXCEPT !.activeMask = mask])

\* WorkingSetObject::change_background_colour
WorkingSetObject_change_background_colour(obj, colour) ==
    ChangedVoid([obj EXCEPT !.backgroundColour = colour])

\* a change_attribute that stores the value without looking at its type
\* tag; the claims about type mismatches must tell it from the real one
DataMaskObject_change_attribute_untyped(obj, id, newAttribute) ==
    IF id = DataMask_BackgroundColour
    THEN Changed([obj EXCEPT !.backgroundColour = newAttribute.value])
    ELSE IF id = DataMask_SoftKeyMask
    THEN Changed([obj EXCEPT !.softKeyMask = newAttribute.value])
    ELSE Rejected(obj)

\* DataMaskObject::change_attribute
DataMaskObject_change_attribute(obj, id, newAttribute) ==
    IF id = DataMask_BackgroundColour
    THEN IF newAttribute.type = "Uint8"
         THEN Changed([obj EXCEPT !.backgroundColour = newAttribute.value])
         ELSE Rejected(obj)
    ELSE IF id = DataMask_SoftKeyMask
    THEN IF newAttribute.type = "Uint16"
         THEN Changed([obj EXCEPT !.softKeyMask = newAttribute.value])
         ELSE Rejected(obj)
    ELSE Rejected(obj)

\* DataMaskObject::change_background_colour
DataMaskObject_change_background_colour(obj, colour) ==
    ChangedVoid([obj EXCEPT !.backgroundColour = colour])

\* DataMaskObject::change_soft_key_mask
DataMaskObject_change_soft_key_mask(obj, mask) ==
    ChangedVoid([obj EXCEPT !.softKeyMask = mask])

\* AlarmMaskObject::change_attribute after the call r of
\* DataMaskObject::change_attribute; the diagnostics of both add up
AlarmMaskOwnAttribute(obj, id, newAttribute, r) ==
    IF r.ret = "true" THEN r
    ELSE IF id = AlarmMask_Priority
    THEN IF newAttribute.type = "Uint8"
         THEN Done([obj EXCEPT !.priority = newAttribute.value], "true",
                   call_object_changed_callbacks(obj), r.errs)
         ELSE Done(obj, "false", <<>>, r.errs + 1)
    ELSE Done(obj, "false", <<>>, r.errs)

\* AlarmMaskObject::change_attribute
AlarmMaskObject_change_attribute(obj, id, newAttribute) ==
    AlarmMaskOwnAttribute(obj, id, newAttribute,
                          DataMaskObject_change_attribute(obj, id, newAttribute))

\* ContainerObject::change_attribute; an unknown ID fails without a
\* diagnostic
ContainerObject_change_attribute(obj, id, newAttribute) ==
    IF id = Container_Width
    THEN IF newAttribute.type = "Uint16"
         THEN Changed([obj EXCEPT !.width = newAttribute.value])
         ELSE Rejected(obj)
    ELSE IF id = Container_Height
    THEN IF newAttribute.type = "Uint16"
         THEN Changed([obj EXCEPT !.height = newAttribute.value])
         ELSE Rejected(obj)
    ELSE IF id = Container_Hidden
    THEN IF newAttribute.type = "Boolean"
         THEN Changed([obj EXCEPT !.hidden = newAttribute.value])
         ELSE Rejected(obj)
    ELSE Done(obj, "false", <<>>, 0)

\* a change_size that also shows or hides the container; the claims about
\* what a mutation leaves alone must tell it from the real one
ContainerObject_change_size_and_toggle(obj, newWidth, newHeight) ==
    Changed([obj EXCEPT !.width = newWidth, !.height = newHeight,
                        !.hidden = ~@])

\* ContainerObject::change_size
ContainerObject_change_size(obj, newWidth, newHeight) ==
    Changed([obj EXCEPT !.width = newWidth, !.height = newHeight])

\* SoftKeyMaskObject::change_attribute; an unknown ID fails without a
\* diagnostic
SoftKeyMaskObject_change_attribute(obj, id, newAttribute) ==
    IF id = SoftKeyMask_BackgroundColour
    THEN IF newAttribute.type = "Uint8"
         THEN Changed([obj EXCEPT !.backgroundColour = newAttribute.value])
         ELSE Rejected(obj)
    ELSE Done(obj, "false", <<>>, 0)

\* SoftKeyMaskObject::change_background_colour
SoftKeyMaskObject_change_background_colour(obj, newColour) ==
    Changed([obj EXCEPT !.backgroundColour = newColour])

\* the virtual call obj->change_attribute(id, newAttribute)
change_attribute(obj, id, newAttribute) ==
    CASE obj.type = WorkingSet ->
             WorkingSetObject_change_attribute(obj, id, newAttribute)
      [] obj.type = DataMask ->
             DataMaskObject_change_attribute(obj, id, newAttribute)
      [] obj.type = AlarmMask ->
             AlarmMaskObject_change_attribute(obj, id, newAttribute)
      [] obj.type = Container ->
             ContainerObject_change_attribute(obj, id, newAttribute)
      [] obj.type = SoftKeyMask ->
             SoftKeyMaskObject_change_attribute(obj, id, newAttribute)

----------------------------------------------------------------------------
(* Reading attributes *)

\* Attribute::NULL_AID, the ID of an Attribute that names no attribute
NULL_AID == 255

\* Attribute(): a value-initialized Attribute.  Its ID is NULL_AID, which is
\* what AlarmMaskObject::get_attribute tests for; no definition reads the
\* type and the value given here.
DefaultAttribute == [id |-> NULL_AID, type |-> "None", value |-> 0]

\* What the members of a local `Attribute attr;` hold until they are
\* assigned: the ID and the upper byte of the value union are those of a
\* default Attribute, or whatever the stack held.
Unset == {[id |-> NULL_AID, hi |-> 0], [id |-> 0, hi |-> 255]}

\* return attr, after errs Error diagnostics
Got(id, type, value, errs) ==
    [id |-> id, type |-> type, value |-> value, errs |-> errs]

\* log an Error; return Attribute()
NotFound(errs) ==
    Got(DefaultAttribute.id, DefaultAttribute.type, DefaultAttribute.value,
        errs + 1)

\* value.Boolean = v read back as value.Uint16: the converted bool in the
\* low byte under the upper byte the union held
BooleanAsUint16(v, u) == (IF v # 0 THEN 1 ELSE 0) + 256 * u.hi

\* WorkingSetObject::get_attribute(id): attr.id is never assigned
WorkingSetObject_get_attribute(obj, id, u) ==
    CASE id = WorkingSet_Type -> Got(u.id, "Uint8", get_object_type(obj), 0)
      [] id = WorkingSet_BackgroundColour ->
             Got(u.id, "Uint8", obj.backgroundColour, 0)
      [] id = WorkingSet_Selectable -> Got(u.id, "Boolean", obj.selectable, 0)
      [] id = WorkingSet_ActiveMask -> Got(u.id, "Uint16", obj.activeMask, 0)
      [] OTHER -> NotFound(0)

\* DataMaskObject::get_attribute(id)
DataMaskObject_get_attribute(obj, id, u) ==
    CASE id = DataMask_Type -> Got(id, "Uint8", get_object_type(obj), 0)
      [] id = DataMask_BackgroundColour ->
             Got(id, "Uint8", obj.backgroundColour, 0)
      [] id = DataMask_SoftKeyMask ->
             Got(id, "Uint16", BooleanAsUint16(obj.softKeyMask, u), 0)
      [] OTHER -> NotFound(0)

\* AlarmMaskObject::get_attribute(id) after the call d of
\* DataMaskObject::get_attribute(id) that it tests; the second call returns
\* what the first did and logs what the first did, which is nothing
AlarmMaskOwn(obj, id, d) ==
    IF d.id # NULL_AID THEN d
    ELSE CASE id = AlarmMask_Priority -> Got(id, "Uint8", obj.priority, d.errs)
           [] id = AlarmMask_AcousticSignal ->
                  Got(id, "Uint8", obj.acousticSignal, d.errs)
           [] OTHER -> NotFound(d.errs)

AlarmMaskObject_get_attribute(obj, id, u) ==
    AlarmMaskOwn(obj, id, DataMaskObject_get_attribute(obj, id, u))

\* ContainerObject::get_attribute(id)
ContainerObject_get_attribute(obj, id, u) ==
    CASE id = Container_Type -> Got(id, "Uint8", get_object_type(obj), 0)
      [] id = Container_Width -> Got(id, "Uint16", obj.width, 0)
      [] id = Container_Height -> Got(id, "Uint16", obj.height, 0)
      [] id = Container_Hidden -> Got(id, "Boolean", obj.hidden, 0)
      [] OTHER -> NotFound(0)

\* SoftKeyMaskObject::get_attribute(id): attr.id is never assigned
SoftKeyMaskObject_get_attribute(obj, id, u) ==
    CASE id = SoftKeyMask_Type -> Got(u.id, "Uint8", get_object_type(obj), 0)
      [] id = SoftKeyMask_BackgroundColour ->
             Got(u.id, "Uint8", obj.backgroundColour, 0)
      [] OTHER -> NotFound(0)

\* the virtual call obj->get_attribute(id)
get_attribute(obj, id, u) ==
    CASE obj.type = WorkingSet -> WorkingSetObject_get_attribute(obj, id, u)
      [] obj.type = DataMask -> DataMaskObject_get_attribute(obj, id, u)
      [] obj.type = AlarmMask -> AlarmMaskObject_get_attribute(obj, id, u)
      [] obj.type = Container -> ContainerObject_get_attribute(obj, id, u)
      [] obj.type = SoftKeyMask -> SoftKeyMaskObject_get_attribute(obj, id, u)

----------------------------------------------------------------------------
(* ObjectPool *)

\* IOPFileInterface::hash_object_pool_to_version: a version string that
\* identifies the bytes it was computed from
hash_object_pool_to_version(bytes) == <<bytes>>

\* the empty std::string versionHash of a new ObjectPool
NoVersion == <<>>

RECURSIVE PoolLoop(_, _, _, _, _)

\* if (!object->parse(binaryPool, iterator)) return false;
\* objects[object->get_object_id()] = object; break;
PoolInsert(m, r, objs, inst, junk) ==
    IF ~r.ok \/ r.c.crash
    THEN [ret |-> FALSE, objects |-> objs, c |-> r.c]
    ELSE PoolLoop(m, r.c, (get_object_id(r.obj) :> r.obj) @@ objs, inst, junk)

\* switch (static_cast<ObjectType>(iterator[2]))
PoolSwitch(m, t, objs, inst, junk) ==
    IF t.v = WorkingSet
    THEN PoolInsert(m,
                    WorkingSetObject_parse(
                        m, t.c, NewObject(WorkingSet, inst, 0), junk),
                    objs, inst, junk)
    ELSE IF t.v = DataMask
    THEN PoolInsert(m,
                    DataMaskObject_parse(m, t.c, NewObject(DataMask, inst, 0)),
                    objs, inst, junk)
    ELSE [ret |-> FALSE, objects |-> objs, c |-> LogError(t.c)]

\* while (iterator != binaryPool.end())
PoolLoop(m, c, objs, inst, junk) ==
    IF c.it = End(m) THEN [ret |-> TRUE, objects |-> objs, c |-> c]
    ELSE PoolSwitch(m, DerefAt(m, c, 2), objs, inst, junk)

PoolResult(m, r, version) ==
    [ret |-> r.ret,
     objects |-> r.objects,
     versionHash |-> IF r.ret THEN hash_object_pool_to_version(m.bytes)
                     ELSE version,
     c |-> r.c]

\* ObjectPool::parse(binaryPool) on a pool holding `objs` and `version`
ObjectPool_parse(m, objs, version, inst, junk) ==
    PoolResult(m, PoolLoop(m, NewCursor, objs, inst, junk), version)

\* a lookup through std::map::lower_bound, which yields the entry of the next
\* larger key for an absent one; the claims about lookup must tell it from
\* get_object
get_lower_bound(objs, objectID) ==
    IF \E k \in DOMAIN objs : k >= objectID
    THEN [obj |-> objs[CHOOSE k \in DOMAIN objs :
                         /\ k >= objectID
                         /\ \A j \in DOMAIN objs : j >= objectID => k <= j],
          errs |-> 0]
    ELSE [obj |-> NoObject, errs |-> 1]

\* ObjectPool::get_object(objectID): the object, or a null pointer and an
\* Error diagnostic
get_object(objs, objectID) ==
    IF objectID \in DOMAIN objs
    THEN [obj |-> objs[objectID], errs |-> 0]
    ELSE [obj |-> NoObject, errs |-> 1]

----------------------------------------------------------------------------
(* Byte buffers handed to the parsers: records written in the layout the   *)
(* decoders read, whole or cut short                                       *)

RECURSIVE EncChildren(_)
EncChildren(ch) ==
    IF ch = <<>> THEN <<>>
    ELSE U16(Head(ch)[1]) \o U16(Head(ch)[2]) \o U16(Head(ch)[3])
         \o EncChildren(Tail(ch))

RECURSIVE EncU16s(_)
EncU16s(list) ==
    IF list = <<>> THEN <<>> ELSE U16(Head(list)) \o EncU16s(Tail(list))

RECURSIVE EncLangs(_)
EncLangs(list) ==
    IF list = <<>> THEN <<>> ELSE Head(list) \o EncLangs(Tail(list))

Rec(tag, id, bg, sel, mask, children, macros, langs) ==
    [tag |-> tag, id |-> id, bg |-> bg, sel |-> sel, mask |-> mask,
     children |-> children, macros |-> macros, langs |-> langs]

\* the IDs of a list of children
RECURSIVE ChildIds(_)
ChildIds(ch) ==
    IF ch = <<>> THEN <<>> ELSE <<Head(ch)[1]>> \o ChildIds(Tail(ch))

\* a record in the layout its variant's parse reads.  Of a Container record
\* mask is the width, bg the height and sel the hidden flag; the keys of a
\* SoftKeyMask record are the IDs of its children; the priority and the
\* acoustic signal of an AlarmMask record are both sel.
Encode(d) ==
    CASE d.tag = WorkingSet ->
           U16(d.id) \o <<d.tag, d.bg, d.sel>> \o U16(d.mask)
           \o <<Len(d.children), Len(d.macros), Len(d.langs)>>
           \o EncChildren(d.children) \o EncU16s(d.macros)
           \o EncLangs(d.langs)
      [] d.tag = DataMask ->
           U16(d.id) \o <<d.tag, d.bg>> \o U16(d.mask)
           \o <<Len(d.children), Len(d.macros)>>
           \o EncChildren(d.children) \o EncU16s(d.macros)
      [] d.tag = AlarmMask ->
           U16(d.id) \o <<d.tag, d.bg>> \o U16(d.mask) \o <<d.sel, d.sel>>
           \o <<Len(d.children), Len(d.macros)>>
           \o EncChildren(d.children) \o EncU16s(d.macros)
      [] d.tag = Container ->
           U16(d.id) \o <<d.tag>> \o U16(d.mask) \o U16(d.bg) \o <<d.sel>>
           \o <<Len(d.children), Len(d.macros)>>
           \o EncChildren(d.children) \o EncU16s(d.macros)
      [] d.tag = SoftKeyMask ->
           U16(d.id) \o <<d.tag, d.bg>>
           \o <<Len(d.children), Len(d.macros)>>
           \o EncU16s(ChildIds(d.children)) \o EncU16s(d.macros)

RECURSIVE EncodePool(_)
EncodePool(recs) ==
    IF recs = <<>> THEN <<>> ELSE Encode(Head(recs)) \o EncodePool(Tail(recs))

\* object IDs of the test's pool, and the language codes "en" and "de"
IdA == 43981
IdB == 61184
LangEn == <<101, 110>>
LangDe == <<100, 101>>

W1 == Rec(WorkingSet, IdA, 2, 1, 1000, <<<<1, 300, 4>>>>, <<600>>, <<LangEn>>)
D1 == Rec(DataMask, IdA, 3, 0, 1001, <<<<2, 5, 6>>, <<1, 300, 4>>>>, <<>>, <<>>)
D2 == Rec(DataMask, IdB, 4, 0, NULL_OBJECT_ID, <<<<1, 300, 4>>, <<1, 7, 8>>>>,
          <<>>, <<>>)
A1 == Rec(AlarmMask, IdB, 5, 1, 1002, <<>>, <<>>, <<>>)
N1 == Rec(WorkingSet, NULL_OBJECT_ID, 2, 1, 1000, <<>>, <<>>, <<>>)

RecordSeqs == UNION {[1..n -> {W1, D1, D2, A1, N1}] : n \in 0..MaxRecords}

Input(recs, cut) ==
    [recs |-> recs, cut |-> cut, bytes |-> SubSeq(EncodePool(recs), 1, cut),
     whole |-> (cut = Len(EncodePool(recs)))]

WholeInput(recs) == Input(recs, Len(EncodePool(recs)))

\* An input: the records written into the buffer, the number of bytes of
\* them the buffer holds, those bytes, and whether they are all of them.
\* The pools <<W1>> and <<D2, D1>> also come with the last record cut at
\* every byte.
Inputs ==
    {WholeInput(s) : s \in RecordSeqs}
    \cup UNION {{Input(s, k) :
                    k \in (Len(EncodePool(SubSeq(s, 1, Len(s) - 1))) + 1)
                           ..(Len(EncodePool(s)) - 1)} :
                s \in {<<W1>>, <<D2, D1>>}}

Whole(in) == in.whole

HasLanguages(in) == \E k \in 1..Len(in.recs) : in.recs[k].langs # <<>>

\* what follows a buffer in memory: nothing readable, or MaxTail bytes
Tails == {<<>>} \cup {[i \in 1..MaxTail |-> g] : g \in {0, 255}}

\* what follows the two language characters on the stack, up to a NUL
StackJunk == {<<>>, <<33>>}

QueryIds == {IdA, IdB, NULL_OBJECT_ID, 0}

----------------------------------------------------------------------------
(* The state machine *)

\* what a call is made on: the directly constructed object, or the object
\* the pool holds under an ID
Solo == <<"solo">>
Pooled(id) == <<"pool", id>>

NoCall ==
    [op |-> "none", input |-> WholeInput(<<>>), id |-> 0, ret |-> "none",
     obj |-> NoObject, oob |-> FALSE, errs |-> 0, it |-> 0,
     notified |-> <<>>, target |-> <<>>, arg |-> <<>>,
     preObjects |-> <<>>, preVersion |-> NoVersion, preSolo |-> NoObject,
     attr |-> DefaultAttribute, value |-> 0,
     prev |-> [op |-> "none", arg |-> <<>>, ret |-> "none"]]

Init ==
    /\ objects = <<>>
    /\ versionHash = NoVersion
    /\ solo = NoObject
    /\ parseCount = 0
    /\ mutations = 0
    /\ crashed = FALSE
    /\ registered = [calls |-> 0, solo |-> <<>>, pool |-> <<>>]
    /\ last = NoCall

ParseCall(in, r) ==
    [NoCall EXCEPT !.op = "parse", !.input = in,
                   !.ret = IF r.c.crash THEN "crash"
                           ELSE IF r.ret THEN "true" ELSE "false",
                   !.oob = r.c.oob, !.errs = r.c.errs, !.it = r.c.it,
                   !.preObjects = objects, !.preVersion = versionHash]

\* the object the pool held under id is still the one it holds
StillLive(id, objs) ==
    /\ id \in DOMAIN objs
    /\ id \in DOMAIN objects
    /\ objs[id] = objects[id]

\* the pool after the call returned, or the process dead
Parsed(in, r) ==
    /\ last' = ParseCall(in, r)
    /\ crashed' = r.c.crash
    /\ objects' = IF r.c.crash THEN objects ELSE r.objects
    /\ versionHash' = IF r.c.crash THEN versionHash ELSE r.versionHash
    /\ registered' =
           [registered EXCEPT
               !.pool = [id \in {i \in DOMAIN @ : StillLive(i, objects')} |->
                            @[id]]]

\* op->parse(binaryPool)
Parse(in, tail, junk) ==
    /\ ~crashed
    /\ parseCount < MaxParses
    \* the memory after a buffer matters only to a buffer cut short, the
    \* stack after a language code only to a record that has one
    /\ tail # <<>> => ~Whole(in)
    /\ junk # <<>> => Whole(in) /\ HasLanguages(in)
    /\ Parsed(in, ObjectPool_parse([bytes |-> in.bytes, tail |-> tail],
                                   objects, versionHash, parseCount + 1, junk))
    /\ parseCount' = parseCount + 1
    /\ UNCHANGED <<solo, mutations>>

\* op->get_object(id)
GetObject(id) ==
    /\ ~crashed
    /\ LET r == get_object(objects, id)
       IN last' = [NoCall EXCEPT !.op = "get_object", !.id = id,
                                 !.obj = r.obj, !.errs = r.errs,
                                 !.ret = IF r.obj = NoObject THEN "null"
                                         ELSE "object",
                                 !.preObjects = objects,
                                 !.preVersion = versionHash]
    /\ UNCHANGED <<objects, versionHash, solo, parseCount, mutations, crashed,
                   registered>>

Next ==
    \E in \in Inputs, tail \in Tails, junk \in StackJunk : Parse(in, tail, junk)

\* loading pools
Spec == Init /\ [][Next]_vars

NextLookup ==
    \/ \E in \in Inputs, tail \in Tails, junk \in StackJunk :
           Parse(in, tail, junk)
    \/ \E id \in QueryIds : GetObject(id)

\* loading pools and looking objects up
SpecLookup == Init /\ [][NextLookup]_vars

----------------------------------------------------------------------------
(* Objects constructed directly, callbacks and mutations *)

\* loads of the pool and registered callbacks in the specification of the
\* mutations
MaxLoads == 1

\* what uninitialized 16 bit fields may hold
Garbage16 == {0, 65535}

Variants == {WorkingSet, DataMask, AlarmMask, Container, SoftKeyMask}

\* the variants that derive from VTObjectWithChildObjects
WithChildObjects == {WorkingSet, DataMask, AlarmMask, Container}

\* one record for each variant's parse
A2 == Rec(AlarmMask, IdB, 5, 1, 1002, <<<<1, 300, 4>>>>, <<600>>, <<>>)
C1 == Rec(Container, IdB, 480, 0, 640, <<<<1, 300, 4>>>>, <<600>>, <<>>)
S1 == Rec(SoftKeyMask, IdB, 6, 0, 0, <<<<1, 0, 0>>, <<3, 0, 0>>>>, <<600>>,
          <<>>)
SoloInputs == {WholeInput(<<d>>) : d \in {W1, D1, A2, C1, S1}}

Observers == {"O1", "O2"}

\* the values the mutations set
NewAttribute(type) ==
    CASE type = "Uint8" -> Attribute(type, 7)
      [] type = "Uint16" -> Attribute(type, 700)
      [] type = "Boolean" -> Attribute(type, TRUE)
AttributeIds == 0..5

Targets ==
    (IF solo = NoObject THEN {} ELSE {Solo})
    \cup {Pooled(id) : id \in DOMAIN objects}

Obj(t) == IF t = Solo THEN solo ELSE objects[t[2]]

Store(t, obj) ==
    IF t = Solo
    THEN solo' = obj /\ UNCHANGED objects
    ELSE objects' = [objects EXCEPT ![t[2]] = obj] /\ UNCHANGED solo

\* op->parse(binaryPool) with a well-formed pool
Load(in) ==
    /\ parseCount < MaxLoads
    /\ Parse(in, <<>>, <<>>)

\* WorkingSetObject wso(nullptr), and the same for the other variants
Construct(type, g) ==
    /\ ~crashed
    /\ solo = NoObject
    /\ type = WorkingSet => g = 0
    /\ solo' = NewObject(type, 0, g)
    /\ last' = NoCall
    /\ UNCHANGED <<objects, versionHash, parseCount, mutations, crashed,
                   registered>>

\* the variant's parse on the directly constructed object
parse(m, obj, junk) ==
    CASE obj.type = WorkingSet ->
             WorkingSetObject_parse(m, NewCursor, obj, junk)
      [] obj.type = DataMask -> DataMaskObject_parse(m, NewCursor, obj)
      [] obj.type = AlarmMask -> AlarmMaskObject_parse(m, NewCursor, obj)
      [] obj.type = Container -> ContainerObject_parse(m, NewCursor, obj)
      [] obj.type = SoftKeyMask -> SoftKeyMaskObject_parse(m, NewCursor, obj)

SoloParsed(in, r) ==
    /\ solo' = IF r.c.crash THEN solo ELSE r.obj
    /\ crashed' = r.c.crash
    /\ last' = [NoCall EXCEPT !.op = "parse_object", !.input = in,
                              !.target = Solo,
                              !.ret = IF r.c.crash THEN "crash"
                                      ELSE IF r.ok THEN "true" ELSE "false",
                              !.oob = r.c.oob, !.errs = r.c.errs,
                              !.it = r.c.it, !.preSolo = solo,
                              !.preObjects = objects]

\* wso.parse(bytes, it) with it = bytes.begin(), once on an object, the
\* buffer followed in memory by `tail`
Decode(in, tail, junk) ==
    /\ ~crashed
    /\ solo # NoObject
    /\ solo.objectID = 0
    /\ in.recs[1].tag = solo.type
    /\ tail # <<>> => ~Whole(in)
    /\ junk # <<>> => HasLanguages(in)
    /\ SoloParsed(in, parse([bytes |-> in.bytes, tail |-> tail], solo, junk))
    /\ UNCHANGED <<objects, versionHash, parseCount, mutations, registered>>

\* the same on a buffer that holds the whole record
ParseSolo(in, junk) == Decode(in, <<>>, junk)

\* the callbacks registered on an object so far, in call order
RegisteredOn(t) ==
    IF t = Solo THEN registered.solo
    ELSE IF t[2] \in DOMAIN registered.pool THEN registered.pool[t[2]]
    ELSE <<>>

Registering(t, callback) ==
    IF t = Solo
    THEN [registered EXCEPT !.calls = @ + 1, !.solo = Append(@, callback)]
    ELSE [registered EXCEPT
             !.calls = @ + 1,
             !.pool = (t[2] :> Append(RegisteredOn(t), callback)) @@ @]

\* obj->register_update_callback(callback)
Register(t, callback) ==
    /\ ~crashed
    /\ registered.calls < MaxCallbacks
    /\ registered' = Registering(t, callback)
    /\ Store(t, register_update_callback(Obj(t), callback))
    /\ last' = NoCall
    /\ UNCHANGED <<versionHash, parseCount, mutations, crashed>>

\* a call r of the method op with the arguments arg on the object t
Mutated(t, op, arg, r) ==
    /\ ~crashed
    /\ mutations < MaxMutations
    /\ Store(t, r.obj)
    /\ last' = [NoCall EXCEPT !.op = op, !.target = t, !.arg = arg,
                              !.ret = r.ret, !.notified = r.notified,
                              !.errs = r.errs, !.preObjects = objects,
                              !.preSolo = solo, !.preVersion = versionHash]
    /\ mutations' = mutations + 1
    /\ UNCHANGED <<versionHash, parseCount, crashed, registered>>

ChangeAttribute(t, id, newAttribute) ==
    Mutated(t, "change_attribute", <<id, newAttribute.type>>,
            change_attribute(Obj(t), id, newAttribute))

ChangeBackgroundColour(t, colour) ==
    /\ Obj(t).type \in {WorkingSet, DataMask, AlarmMask, SoftKeyMask}
    /\ Mutated(t, "change_background_colour", <<colour>>,
               CASE Obj(t).type = WorkingSet ->
                        WorkingSetObject_change_background_colour(
                            Obj(t), colour)
                 [] Obj(t).type \in {DataMask, AlarmMask} ->
                        DataMaskObject_change_background_colour(
                            Obj(t), colour)
                 [] Obj(t).type = SoftKeyMask ->
                        SoftKeyMaskObject_change_background_colour(
                            Obj(t), colour))

ChangeActiveMask(t, mask) ==
    /\ Obj(t).type = WorkingSet
    /\ Mutated(t, "change_active_mask", <<mask>>,
               WorkingSetObject_change_active_mask(Obj(t), mask))

ChangeSoftKeyMask(t, mask) ==
    /\ Obj(t).type \in {DataMask, AlarmMask}
    /\ Mutated(t, "change_soft_key_mask", <<mask>>,
               DataMaskObject_change_soft_key_mask(Obj(t), mask))

ChangeSize(t, newWidth, newHeight) ==
    /\ Obj(t).type = Container
    /\ Mutated(t, "change_size", <<newWidth, newHeight>>,
               ContainerObject_change_size(Obj(t), newWidth, newHeight))

ChangeChildPosition(t, child, newX, newY) ==
    /\ Obj(t).type \in WithChildObjects
    /\ Mutated(t, "change_child_position", <<child, newX, newY>>,
               change_child_position(Obj(t), child, newX, newY))

ChangeChildLocation(t, child, deltaX, deltaY) ==
    /\ Obj(t).type \in WithChildObjects
    /\ Mutated(t, "change_child_location", <<child, deltaX, deltaY>>,
               change_child_location(Obj(t), child, deltaX, deltaY))

NextObjects ==
    \/ \E in \in {WholeInput(<<W1, D2>>)} : Load(in)
    \/ \E type \in Variants, g \in Garbage16 : Construct(type, g)
    \/ \E in \in SoloInputs, junk \in StackJunk : ParseSolo(in, junk)
    \/ \E t \in Targets, o \in Observers : Register(t, o)
    \/ \E t \in Targets, id \in AttributeIds, type \in AttributeTypes :
           ChangeAttribute(t, id, NewAttribute(type))
    \/ \E t \in Targets : ChangeBackgroundColour(t, 9)
    \/ \E t \in Targets : ChangeActiveMask(t, 900)
    \/ \E t \in Targets : ChangeSoftKeyMask(t, 901)
    \/ \E t \in Targets : ChangeSize(t, 11, 12)
    \/ \E t \in Targets, child \in {1, 3} :
           ChangeChildPosition(t, child, 20, 21)
    \/ \E t \in Targets, child \in {1, 3} :
           ChangeChildLocation(t, child, 65535, 1)

\* constructing, decoding, observing and mutating objects
SpecObjects == Init /\ [][NextObjects]_vars

----------------------------------------------------------------------------
(* Reading and changing attributes *)

\* obj->get_attribute(id); the call before it is kept with the result
GetAttribute(t, id, u) ==
    /\ ~crashed
    /\ LET r == get_attribute(Obj(t), id, u)
       IN last' = [NoCall EXCEPT
                      !.op = "get_attribute", !.target = t, !.arg = <<id>>,
                      !.attr = [id |-> r.id, type |-> r.type,
                                value |-> r.value],
                      !.errs = r.errs, !.ret = "attribute",
                      !.preObjects = objects, !.preSolo = solo,
                      !.prev = [op |-> last.op, arg |-> last.arg,
                                ret |-> last.ret]]
    /\ UNCHANGED <<objects, versionHash, solo, parseCount, mutations,
                   crashed, registered>>

NextAttributes ==
    \/ \E type \in Variants, g \in Garbage16 : Construct(type, g)
    \/ \E in \in SoloInputs, junk \in StackJunk : ParseSolo(in, junk)
    \/ \E t \in Targets, o \in Observers : Register(t, o)
    \/ \E t \in Targets, id \in AttributeIds, type \in AttributeTypes :
           ChangeAttribute(t, id, NewAttribute(type))
    \/ \E t \in Targets, id \in AttributeIds, u \in Unset :
           GetAttribute(t, id, u)

\* constructing and decoding an object, observing it, changing an attribute
\* and reading attributes
SpecAttributes == Init /\ [][NextAttributes]_vars

----------------------------------------------------------------------------
(* Decoding single records *)

\* the first record of the test's buffer
TestRecordBytes ==
    <<205, 171, 0, 2, 1, 232, 3, 1, 0, 2, 248, 42, 0, 0, 0, 0,
      101, 110, 100, 101>>

\* the record those bytes are in the layout WorkingSetObject::parse reads,
\* and a record with two children, two macros and no language
F1 == Rec(WorkingSet, IdA, 2, 1, 1000, <<<<11000, 0, 0>>>>, <<>>,
          <<LangEn, LangDe>>)
W2 == Rec(WorkingSet, IdB, 2, 0, 1000, <<<<1, 300, 4>>, <<2, 5, 6>>>>,
          <<600, 601>>, <<>>)

\* every record alone in a buffer, whole and cut at every byte
DecodeInputs ==
    UNION {{Input(<<d>>, k) : k \in 0..Len(Encode(d))} :
           d \in {W1, W2, F1, N1, D1, A2, C1, S1}}

NextDecode ==
    \/ \E type \in Variants, g \in Garbage16 : Construct(type, g)
    \/ \E in \in DecodeInputs, tail \in Tails, junk \in StackJunk :
           Decode(in, tail, junk)

\* constructing an object and decoding one record into it
SpecDecode == Init /\ [][NextDecode]_vars

----------------------------------------------------------------------------
(* Callbacks that mutate the object that calls them *)

\* obj->change_background_colour(colour) with callbacks that may mutate obj
ChangeBackgroundColourObserved(t, colour) ==
    /\ Obj(t).type \in {WorkingSet, DataMask, AlarmMask, SoftKeyMask}
    /\ LET r == change_background_colour_observed(Obj(t), colour)
       IN Mutated(t, "change_background_colour", <<colour>>,
                  Done(r.obj, "void", r.notified, 0))

NextReentrant ==
    \/ \E type \in Variants, g \in Garbage16 : Construct(type, g)
    \/ \E t \in Targets, o \in Observers \cup {Recolour} : Register(t, o)
    \/ \E t \in Targets, colour \in {9, ReentrantColour} :
           ChangeBackgroundColourObserved(t, colour)

\* constructing an object, registering callbacks and changing its colour
SpecReentrant == Init /\ [][NextReentrant]_vars

----------------------------------------------------------------------------
(* The read primitives on their own *)

\* bytes in a buffer
MaxBytes == 4

\* buffers of byte values whose 4-byte combinations stay below 2^31
Buffers == UNION {[1..n -> {1, 2, 127}] : n \in 0..MaxBytes}

\* what follows an empty buffer in memory: nothing readable, or four bytes
ByteTails == {<<>>} \cup {[i \in 1..4 |-> g] : g \in {0, 127}}

\* the state after a read primitive returned r; each call starts at
\* begin() of its own buffer, so a behaviour makes one
Converted(op, bytes, arg, r) ==
    /\ last = NoCall
    /\ last' = [NoCall EXCEPT !.op = op,
                              !.input = [recs |-> <<>>, cut |-> Len(bytes),
                                         bytes |-> bytes, whole |-> TRUE],
                              !.arg = arg, !.value = r.v,
                              !.ret = IF r.c.crash THEN "crash" ELSE "value",
                              !.it = r.c.it, !.oob = r.c.oob,
                              !.errs = r.c.errs]
    /\ crashed' = r.c.crash
    /\ UNCHANGED <<objects, versionHash, solo, parseCount, mutations,
                   registered>>

\* it = bytes.begin(); convert_bytes_to<T>(it, bytes.end()).  Only an empty
\* buffer lets a read reach the memory behind it.
ConvertBytesTo(bytes, tail, size) ==
    /\ ~crashed
    /\ tail # <<>> => bytes = <<>>
    /\ Converted("convert_bytes_to", bytes, <<size>>,
                 convert_bytes_to([bytes |-> bytes, tail |-> tail],
                                  NewCursor, size))

\* it = bytes.begin(); convert_byte_vector_to<T>(it, bytes.end(), order)
ConvertByteVectorTo(bytes, tail, size, order) ==
    /\ ~crashed
    /\ tail # <<>> => bytes = <<>>
    /\ Converted("convert_byte_vector_to", bytes, <<size, order>>,
                 convert_byte_vector_to([bytes |-> bytes, tail |-> tail],
                                        NewCursor, size, order))

NextBytes ==
    \/ \E bytes \in Buffers, tail \in ByteTails, size \in {1, 2, 4} :
           ConvertBytesTo(bytes, tail, size)
    \/ \E bytes \in Buffers, tail \in ByteTails, size \in {1, 2, 4},
          order \in {"LittleEndian", "BigEndian"} :
           ConvertByteVectorTo(bytes, tail, size, order)

\* reading values from buffers
SpecBytes == Init /\ [][NextBytes]_vars

----------------------------------------------------------------------------
(* Claims about ObjectPool::parse *)

\* where record k of the written records starts in the buffer
RecordStart(recs, k) == Len(EncodePool(SubSeq(recs, 1, k - 1)))

WireId(in, k) ==
    in.bytes[RecordStart(in.recs, k) + 1]
    + 256 * in.bytes[RecordStart(in.recs, k) + 2]

WireTag(in, k) == in.bytes[RecordStart(in.recs, k) + 3]

Decodable(d) == d.tag \in {WorkingSet, DataMask}

DistinctIds(recs) ==
    \A j, k \in 1..Len(recs) : j # k => recs[j].id # recs[k].id

WellFormedPool(in) ==
    /\ Whole(in)
    /\ \A k \in 1..Len(in.recs) : Decodable(in.recs[k])

\* C1: parsing a concatenation of well-formed WorkingSet and DataMask
\* records with pairwise distinct IDs returns true, and get_object then
\* returns, for every record, an object whose ID is the record's two ID bytes
\* read low byte first and whose type is the record's type byte.
C1_ParseRegistersEveryRecord ==
    (last.op = "parse" /\ WellFormedPool(last.input)
       /\ DistinctIds(last.input.recs))
    => /\ last.ret = "true"
       /\ \A k \in 1..Len(last.input.recs) :
            /\ get_object(objects, WireId(last.input, k)).obj # NoObject
            /\ get_object_id(get_object(objects, WireId(last.input, k)).obj)
                 = WireId(last.input, k)
            /\ get_object_type(get_object(objects, WireId(last.input, k)).obj)
                 = WireTag(last.input, k)

C1_Witness ==
    /\ last.op = "parse"
    /\ last.input.recs = <<W1, D2>>
    /\ Whole(last.input)
    /\ last.ret = "true"
    /\ DOMAIN objects = {IdA, IdB}

\* C2: when two records of the parsed stream carry the same ObjectID, parse
\* fails and get_object for that ID returns nothing.
C2_DuplicateIdRejected ==
    (last.op = "parse" /\ WellFormedPool(last.input)
       /\ ~DistinctIds(last.input.recs) /\ last.preObjects = <<>>)
    => /\ last.ret = "false"
       /\ \A j, k \in 1..Len(last.input.recs) :
            (j # k /\ last.input.recs[j].id = last.input.recs[k].id)
            => get_object(objects, last.input.recs[j].id).obj = NoObject

\* C3: parsing a buffer cut strictly inside its last record fails, decodes
\* no object from the cut record, and reads no byte at or past the end of
\* the buffer.
C3_TruncationSafe ==
    (last.op = "parse" /\ ~Whole(last.input))
    => /\ last.ret = "false"
       /\ ~last.oob
       /\ last.preObjects = <<>> =>
            last.input.recs[Len(last.input.recs)].id \notin DOMAIN objects

\* C4: a parse that returns failure leaves the registry exactly as it was
\* before the call.
C4_FailedParseLeavesRegistry ==
    (last.op = "parse" /\ last.ret = "false") => objects = last.preObjects

\* C5: after a parse call the version tag is defined exactly when that call
\* returned success, and it is then the version of that call's bytes.
C5_VersionIffLastParseSucceeded ==
    (last.op = "parse" /\ last.ret # "crash")
    => /\ (versionHash # NoVersion) <=> (last.ret = "true")
       /\ last.ret = "true"
            => versionHash = hash_object_pool_to_version(last.input.bytes)

\* get_child_objects(): the children of an object in the order the
\* container yields them
ChildList(obj) == obj.childObjects

\* C10: after decoding a record that declares N children, the object's child
\* list is the N wire entries (ID, x, y) in wire order, entries that share an
\* ID both kept.
C10_ChildrenAreWireEntries ==
    (last.op = "parse" /\ WellFormedPool(last.input)
       /\ DistinctIds(last.input.recs))
    => \A k \in 1..Len(last.input.recs) :
         /\ last.input.recs[k].id \in DOMAIN objects
         /\ ChildList(objects[last.input.recs[k].id])
              = last.input.recs[k].children

----------------------------------------------------------------------------
(* Claims about ObjectPool::get_object *)

\* C9: get_object(id) returns an object exactly when id is a key of the
\* registry, the object returned is the one stored under id and has id as
\* its ObjectID, and a lookup, found or not, leaves the registry as it was.
C9_LookupIsPure ==
    last.op = "get_object"
    => /\ (last.ret = "object") <=> (last.id \in DOMAIN last.preObjects)
       /\ last.ret = "object"
            => /\ last.obj = last.preObjects[last.id]
               /\ get_object_id(last.obj) = last.id
       /\ last.ret = "null" => last.obj = NoObject
       /\ objects = last.preObjects
       /\ versionHash = last.preVersion

C9_Witness ==
    /\ last.op = "get_object"
    /\ last.ret = "null"
    /\ last.id = IdA
    /\ DOMAIN objects = {IdB}

----------------------------------------------------------------------------
(* Claims about callbacks and mutations *)

MutationOps ==
    {"change_attribute", "change_background_colour", "change_active_mask",
     "change_soft_key_mask", "change_size", "change_child_position",
     "change_child_location"}

ChildOps == {"change_child_position", "change_child_location"}

\* the object the last call was made on, before and after the call
PreTarget ==
    IF last.target = Solo THEN last.preSolo
    ELSE last.preObjects[last.target[2]]
PostTarget == Obj(last.target)

\* the last call was a mutation that succeeded: it returned true, or it
\* returns nothing and, for a child's coordinates, the child exists
Succeeded ==
    /\ last.op \in MutationOps
    /\ \/ last.ret = "true"
       \/ /\ last.ret = "void"
          /\ last.op \in ChildOps
               => MapHas(PreTarget.childObjects, last.arg[1])

\* C6: a mutation that succeeds on an object calls the callbacks registered
\* on that object before the call, each once, in the order they were
\* registered, with the object's ID, and calls nothing else.
C6_SuccessNotifiesInOrder ==
    Succeeded
    => last.notified =
         [k \in 1..Len(RegisteredOn(last.target)) |->
             <<RegisteredOn(last.target)[k], PreTarget.objectID>>]

C6_Witness ==
    /\ last.op = "change_attribute"
    /\ PreTarget.type = AlarmMask
    /\ last.arg = <<AlarmMask_Priority, "Uint8">>
    /\ last.ret = "true"
    /\ last.notified = << <<"O2", IdB>>, <<"O1", IdB>> >>

\* the type each variant's get_attribute reports for the attribute IDs of
\* its table
AttributeTable(type) ==
    CASE type = WorkingSet ->
           (WorkingSet_Type :> "Uint8")
           @@ (WorkingSet_BackgroundColour :> "Uint8")
           @@ (WorkingSet_Selectable :> "Boolean")
           @@ (WorkingSet_ActiveMask :> "Uint16")
      [] type = DataMask ->
           (DataMask_Type :> "Uint8") @@ (DataMask_BackgroundColour :> "Uint8")
           @@ (DataMask_SoftKeyMask :> "Uint16")
      [] type = AlarmMask ->
           (DataMask_Type :> "Uint8") @@ (DataMask_BackgroundColour :> "Uint8")
           @@ (DataMask_SoftKeyMask :> "Uint16")
           @@ (AlarmMask_Priority :> "Uint8")
           @@ (AlarmMask_AcousticSignal :> "Uint8")
      [] type = Container ->
           (Container_Type :> "Uint8") @@ (Container_Width :> "Uint16")
           @@ (Container_Height :> "Uint16")
           @@ (Container_Hidden :> "Boolean")
      [] type = SoftKeyMask ->
           (SoftKeyMask_Type :> "Uint8")
           @@ (SoftKeyMask_BackgroundColour :> "Uint8")

TypeMismatch ==
    /\ last.op = "change_attribute"
    /\ PreTarget.type \in {DataMask, AlarmMask, Container, SoftKeyMask}
    /\ last.arg[1] \in DOMAIN AttributeTable(PreTarget.type)
    /\ last.arg[2] # AttributeTable(PreTarget.type)[last.arg[1]]

\* C7: change_attribute on a DataMask, AlarmMask, Container or SoftKeyMask
\* object, for an attribute ID of its table and a value of another type than
\* the attribute's, returns false, changes no field of any object and calls
\* no callback.
C7_TypeMismatchRejected ==
    TypeMismatch
    => /\ last.ret = "false"
       /\ PostTarget = PreTarget
       /\ objects = last.preObjects
       /\ solo = last.preSolo
       /\ last.notified = <<>>

C7_Witness ==
    /\ TypeMismatch
    /\ PreTarget.type = DataMask
    /\ last.target = Pooled(IdB)
    /\ last.arg = <<DataMask_SoftKeyMask, "Uint8">>
    /\ RegisteredOn(last.target) = <<"O1", "O2">>
    /\ last.ret = "false"

OnWorkingSet == last.op \in MutationOps /\ PreTarget.type = WorkingSet

\* WorkingSetObject::change_attribute returns false, changes nothing and
\* calls no callback
WorkingSetImmutable ==
    (OnWorkingSet /\ last.op = "change_attribute")
    => /\ last.ret = "false"
       /\ PostTarget = PreTarget
       /\ objects = last.preObjects
       /\ solo = last.preSolo
       /\ last.notified = <<>>

\* C8 as stated: WorkingSetObject::change_attribute fails, changes nothing
\* and calls no callback, and of the calls on a decoded WorkingSet object only
\* change_active_mask and change_background_colour change its background
\* colour, selectable flag, active mask, children, macros or languages.
C8_OnlyTheTwoSettersChange ==
    /\ WorkingSetImmutable
    /\ (OnWorkingSet
          /\ \/ PostTarget.backgroundColour # PreTarget.backgroundColour
             \/ PostTarget.selectable # PreTarget.selectable
             \/ PostTarget.activeMask # PreTarget.activeMask
             \/ PostTarget.childObjects # PreTarget.childObjects
             \/ PostTarget.childMacros # PreTarget.childMacros
             \/ PostTarget.childLanguages # PreTarget.childLanguages)
       => last.op \in {"change_active_mask", "change_background_colour"}

\* C8 amended: WorkingSetObject::change_attribute fails, changes nothing and
\* calls no callback; of the calls on a decoded WorkingSet object only
\* change_background_colour changes the background colour, only
\* change_active_mask the active mask, only change_child_position and
\* change_child_location the children, and none the selectable flag, the
\* macros or the languages.
C8_SettersChangeTheirField ==
    /\ WorkingSetImmutable
    /\ OnWorkingSet
       => /\ PostTarget.backgroundColour # PreTarget.backgroundColour
               => last.op = "change_background_colour"
          /\ PostTarget.activeMask # PreTarget.activeMask
               => last.op = "change_active_mask"
          /\ PostTarget.childObjects # PreTarget.childObjects
               => last.op \in ChildOps
          /\ PostTarget.selectable = PreTarget.selectable
          /\ PostTarget.childMacros = PreTarget.childMacros
          /\ PostTarget.childLanguages = PreTarget.childLanguages

C8_Witness ==
    /\ OnWorkingSet
    /\ last.op = "change_attribute"
    /\ last.target = Pooled(IdA)
    /\ last.arg = <<WorkingSet_BackgroundColour, "Uint8">>
    /\ RegisteredOn(last.target) = <<"O1">>
    /\ last.ret = "false"
    /\ PostTarget.backgroundColour = 2


----------------------------------------------------------------------------
(* Claims about decoding a single record *)

\* the record a solo parse call was given
DecodedRecord == last.input.recs[1]

\* a WorkingSetObject::parse call on a buffer that holds a whole record
WorkingSetDecoded ==
    /\ last.op = "parse_object"
    /\ Whole(last.input)
    /\ DecodedRecord.tag = WorkingSet

\* the bytes the cursor moved past the 3-byte header of ID and type
PastHeader == last.it - NewCursor.it - 3

ListBytes ==
    6 * Len(DecodedRecord.children) + 2 * Len(DecodedRecord.macros)
    + 2 * Len(DecodedRecord.langs)

\* C11 as stated: WorkingSetObject::parse on a well-formed record with N
\* children, M macros and L languages advances the cursor by exactly
\* 9 + 6N + 2M + 2L bytes past the 3-byte header.
C11_NinePastHeader == WorkingSetDecoded => PastHeader = 9 + ListBytes

\* C11 amended: WorkingSetObject::parse on a well-formed record with N
\* children, M macros and L languages advances the cursor by exactly
\* 7 + 6N + 2M + 2L bytes past the 3-byte header.
C11_SevenPastHeader == WorkingSetDecoded => PastHeader = 7 + ListBytes

C11_Witness ==
    /\ WorkingSetDecoded
    /\ DecodedRecord = W1
    /\ last.ret = "true"
    /\ last.it = End([bytes |-> last.input.bytes])

\* WorkingSetObject::parse was given the 20 bytes of the test's first record
TestRecordDecoded ==
    /\ last.op = "parse_object"
    /\ last.input.bytes = TestRecordBytes

\* the scalar fields both readings of the 20 bytes agree on
TestRecordFields ==
    /\ last.ret = "true"
    /\ get_object_id(solo) = 43981
    /\ get_object_type(solo) = WorkingSet
    /\ solo.backgroundColour = 2
    /\ solo.selectable = TRUE
    /\ solo.activeMask = 1000

----------------------------------------------------------------------------
(* Claims about attributes *)

AttributeRead == last.op = "get_attribute"

AttributeChange == last.op = "change_attribute"

\* the attribute ID of the last call is in the table of the object's variant
InTable == last.arg[1] \in DOMAIN AttributeTable(PreTarget.type)

\* the test AlarmMaskObject::get_attribute makes on a returned Attribute
Found(a) == a.id # NULL_AID

\* no object changed in the last call
NothingChanged == solo = last.preSolo /\ objects = last.preObjects

\* C13: for every variant and every attribute ID outside its table,
\* get_attribute returns a result the caller can tell from every successful
\* one (found results pass the NULL_AID test, the not-found result fails
\* it), and change_attribute with that ID fails and leaves the object
\* unchanged.
C13_NotFoundIsDistinct ==
    /\ AttributeRead => (Found(last.attr) <=> InTable)
    /\ (AttributeChange /\ ~InTable) => (last.ret = "false" /\ NothingChanged)

\* C14: for every variant get_attribute(0) returns a Uint8 attribute whose
\* value is the byte of the object's type, and change_attribute(0, v) fails
\* for every v, changes no field and calls no callback.
C14_TypeAttributeReadOnly ==
    /\ (AttributeRead /\ last.arg[1] = 0)
         => (last.attr.type = "Uint8" /\ last.attr.value = PreTarget.type)
    /\ (AttributeChange /\ last.arg[1] = 0)
         => (last.ret = "false" /\ NothingChanged /\ last.notified = <<>>)

C14_Witness ==
    /\ AttributeRead
    /\ last.arg = <<0>>
    /\ last.attr.value = AlarmMask
    /\ PreTarget.objectID = IdB
    /\ Len(PreTarget.objectChangedCallbacks) = 1
    /\ last.prev.op = "change_attribute"
    /\ last.prev.arg = <<0, "Uint8">>
    /\ last.prev.ret = "false"

\* the get_attribute call follows a change_attribute call that succeeded
\* for the same attribute ID
ReadAfterChange ==
    /\ AttributeRead
    /\ last.prev.op = "change_attribute"
    /\ last.prev.ret = "true"
    /\ last.prev.arg[1] = last.arg[1]

\* C19: on a DataMask object change_attribute succeeds for BackgroundColour
\* with a Uint8 value and for SoftKeyMask with a Uint16 value, with the
\* effect of change_background_colour and change_soft_key_mask, and after a
\* change_attribute(id, v) that succeeded get_attribute(id) returns the same
\* id, the same type tag and the full value v.
C19_DataMaskRoundTrip ==
    /\ (AttributeChange /\ PreTarget.type = DataMask
          /\ last.arg = <<DataMask_BackgroundColour, "Uint8">>)
         => /\ last.ret = "true"
            /\ PostTarget = DataMaskObject_change_background_colour(
                                PreTarget, NewAttribute("Uint8").value).obj
    /\ (AttributeChange /\ PreTarget.type = DataMask
          /\ last.arg = <<DataMask_SoftKeyMask, "Uint16">>)
         => /\ last.ret = "true"
            /\ PostTarget = DataMaskObject_change_soft_key_mask(
                                PreTarget, NewAttribute("Uint16").value).obj
    /\ (ReadAfterChange /\ PreTarget.type = DataMask)
         => /\ last.attr.id = last.arg[1]
            /\ last.attr.type = last.prev.arg[2]
            /\ last.attr.value = NewAttribute(last.prev.arg[2]).value

\* the Attribute a get_attribute call returned, for some content of the
\* unset members
Returned(r) ==
    \E u \in Unset :
        last.attr = [id |-> r[u].id, type |-> r[u].type, value |-> r[u].value]

\* C20: on an AlarmMask object, for IDs 1 and 2 get_attribute and
\* change_attribute behave as DataMask's, and for IDs 3 (Priority) and 4
\* (AcousticSignal) get_attribute returns the field as Uint8 and
\* change_attribute with a Uint8 value sets the field and succeeds.
C20_AlarmMaskAttributes ==
    /\ (AttributeRead /\ PreTarget.type = AlarmMask /\ last.arg[1] \in {1, 2})
         => Returned([u \in Unset |->
                        DataMaskObject_get_attribute(PreTarget, last.arg[1], u)])
    /\ (AttributeChange /\ PreTarget.type = AlarmMask
          /\ last.arg[1] \in {1, 2})
         => /\ PostTarget = DataMaskObject_change_attribute(
                                PreTarget, last.arg[1],
                                NewAttribute(last.arg[2])).obj
            /\ last.ret = DataMaskObject_change_attribute(
                              PreTarget, last.arg[1],
                              NewAttribute(last.arg[2])).ret
    /\ (AttributeRead /\ PreTarget.type = AlarmMask)
         => /\ last.arg[1] = AlarmMask_Priority
                 => last.attr = [id |-> AlarmMask_Priority, type |-> "Uint8",
                                 value |-> PreTarget.priority]
            /\ last.arg[1] = AlarmMask_AcousticSignal
                 => last.attr = [id |-> AlarmMask_AcousticSignal,
                                 type |-> "Uint8",
                                 value |-> PreTarget.acousticSignal]
    /\ (AttributeChange /\ PreTarget.type = AlarmMask
          /\ last.arg[2] = "Uint8")
         => /\ last.arg[1] = AlarmMask_Priority
                 => (last.ret = "true" /\ PostTarget.priority = 7)
            /\ last.arg[1] = AlarmMask_AcousticSignal
                 => (last.ret = "true" /\ PostTarget.acousticSignal = 7)

----------------------------------------------------------------------------
(* Claims about the registry and the dispatch *)

\* C15: in every state reached by parse calls the null object ID 0xFFFF is
\* not a key of the registry, and get_object(0xFFFF) returns nothing.
C15_NullIdNeverRegistered ==
    /\ NULL_OBJECT_ID \notin DOMAIN objects
    /\ get_object(objects, NULL_OBJECT_ID).obj = NoObject

\* a record of a variant that has a parse function
HasDecoder(d) == d.tag \in Variants

\* C16: a pool of well-formed records of variants that have a decoder
\* (AlarmMask, Container and SoftKeyMask among them), with distinct IDs, is
\* parsed successfully and every object is retrievable by its ID with the
\* type of its record; parse fails only on a type tag without a decoder.
C16_EveryDecoderDispatched ==
    (last.op = "parse" /\ Whole(last.input) /\ DistinctIds(last.input.recs)
       /\ \A k \in 1..Len(last.input.recs) : HasDecoder(last.input.recs[k]))
    => /\ last.ret = "true"
       /\ \A k \in 1..Len(last.input.recs) :
            get_object_type(get_object(objects, last.input.recs[k].id).obj)
              = last.input.recs[k].tag

\* C17: SoftKeyMaskObject::parse returns true for every well-formed record
\* and returns false only when the buffer is too short.
C17_SoftKeyMaskParseSucceeds ==
    (last.op = "parse_object" /\ DecodedRecord.tag = SoftKeyMask)
    => /\ Whole(last.input) => last.ret = "true"
       /\ last.ret = "false" => ~Whole(last.input)

\* the IDs of the records of a pool
RecordIds(recs) == {recs[k].id : k \in 1..Len(recs)}

\* C18: after a parse that succeeded, get_object returns an object only for
\* the IDs of the pool just parsed, each decoded in this call; no object of
\* an earlier pool is still retrievable.
C18_ParseReplacesRegistry ==
    (last.op = "parse" /\ last.ret = "true")
    => /\ DOMAIN objects = RecordIds(last.input.recs)
       /\ \A id \in DOMAIN objects : objects[id].inst = parseCount

----------------------------------------------------------------------------
(* Claims about the order and the bounds of the reads *)

\* a decoder was given a buffer that holds a whole record
WholeDecoded == last.op = "parse_object" /\ Whole(last.input)

\* where the decoder of a variant reads the child count, how many count
\* bytes it has, and the size of one child entry
CountPos(tag) ==
    CASE tag = WorkingSet -> 8
      [] tag = DataMask -> 7
      [] tag = AlarmMask -> 9
      [] tag = Container -> 9
      [] tag = SoftKeyMask -> 5

CountBytes(tag) == IF tag = WorkingSet THEN 3 ELSE 2

EntrySize(tag) == IF tag = SoftKeyMask THEN 2 ELSE 6

\* byte p of the buffer of the last call; no byte value beyond it
ByteAt(p) == IF p \in 1..Len(last.input.bytes) THEN last.input.bytes[p] ELSE -1

WordAt(p) == ByteAt(p) + 256 * ByteAt(p + 1)

\* the child count the decoder read
DeclaredChildren == ByteAt(CountPos(solo.type))

\* C21 as stated: every decoder reads the child count, then its N child
\* entries, and only then the macro count: the macro count is the byte that
\* follows the N child entries.
C21_CountsBeforeTheirEntries ==
    WholeDecoded
    => Len(solo.childMacros)
         = ByteAt(CountPos(solo.type) + 1
                  + EntrySize(solo.type) * DeclaredChildren)

\* C21 amended: every decoder reads the fixed fields, then all its count
\* bytes together (children, macros and, for WorkingSet, languages), then
\* the child entries, the macro entries and the language codes in this
\* order.
C21_CountsReadTogether ==
    WholeDecoded
    => /\ Len(solo.childMacros) = ByteAt(CountPos(solo.type) + 1)
       /\ solo.type = WorkingSet
            => Len(solo.childLanguages) = ByteAt(CountPos(solo.type) + 2)
       /\ solo.childMacros # <<>>
            => solo.childMacros[1]
                 = WordAt(CountPos(solo.type) + CountBytes(solo.type)
                          + EntrySize(solo.type) * DeclaredChildren)
       /\ last.it = CountPos(solo.type) + CountBytes(solo.type)
                      + EntrySize(solo.type) * DeclaredChildren
                      + 2 * Len(solo.childMacros)
                      + 2 * Len(solo.childLanguages)

C21_Witness ==
    /\ WholeDecoded
    /\ DecodedRecord = W1
    /\ ChildList(solo) = <<<<1, 300, 4>>>>
    /\ solo.childMacros = <<600>>
    /\ Len(solo.childLanguages) = 1

----------------------------------------------------------------------------
(* Claims about the read primitives *)

PrimitiveCalled == last.op \in {"convert_bytes_to", "convert_byte_vector_to"}

\* fewer than sizeof(T) bytes remained at the cursor
ShortRead == PrimitiveCalled /\ Len(last.input.bytes) < last.arg[1]

\* C22: with fewer than sizeof(T) bytes remaining, zero included, the read
\* primitive reports the failure instead of returning a value, leaves the
\* cursor at the end of the buffer and reads no position at or past the end.
C22_ShortReadFails ==
    ShortRead
    => /\ last.ret # "value"
       /\ last.errs >= 1
       /\ last.it = End([bytes |-> last.input.bytes])
       /\ ~last.oob

\* convert_byte_vector_to<T> had sizeof(T) bytes to read, for a 2-byte or a
\* 4-byte T
FullRead ==
    /\ last.op = "convert_byte_vector_to"
    /\ last.arg[1] \in {2, 4}
    /\ Len(last.input.bytes) >= last.arg[1]

\* the sum of b[i] * 256^i over a sequence b of bytes, i from 0
RECURSIVE LittleEndianValue(_)
LittleEndianValue(b) ==
    IF b = <<>> THEN 0 ELSE Head(b) + 256 * LittleEndianValue(Tail(b))

Reversed(b) == [i \in 1..Len(b) |-> b[Len(b) + 1 - i]]

\* the sizeof(T) bytes at the cursor
BytesRead == SubSeq(last.input.bytes, 1, last.arg[1])

\* C30: convert_byte_vector_to<T> for a 2-byte or 4-byte T returns, with
\* LittleEndian, the sum of byte[i] * 256^i, and with BigEndian the
\* LittleEndian value of the bytes reversed (first byte most significant);
\* both advance the cursor by sizeof(T).
C30_ByteOrderValues ==
    FullRead
    => /\ last.value = IF last.arg[2] = "LittleEndian"
                       THEN LittleEndianValue(BytesRead)
                       ELSE LittleEndianValue(Reversed(BytesRead))
       /\ last.it = NewCursor.it + last.arg[1]

\* the cursor right after the count bytes when every fixed field was there
AfterCounts == CountPos(last.preSolo.type) + CountBytes(last.preSolo.type)

\* the buffer holds the count bytes and the whole region they declare
RegionCovered ==
    /\ AfterCounts - 1 <= Len(last.input.bytes)
    /\ Len(last.input.bytes) - (AfterCounts - 1)
         >= EntrySize(last.preSolo.type) * ByteAt(CountPos(last.preSolo.type))
            + 2 * ByteAt(CountPos(last.preSolo.type) + 1)
            + (IF last.preSolo.type = WorkingSet
               THEN 2 * ByteAt(CountPos(last.preSolo.type) + 2) ELSE 0)

\* the decoder went on to the lists: the cursor is past the count bytes, or
\* the object holds an element
ElementRead ==
    \/ last.it > AfterCounts
    \/ solo.childObjects # <<>> \/ solo.keyObjects # <<>>
    \/ solo.childMacros # <<>> \/ solo.childLanguages # <<>>

\* C23: in every variant decoder that got as far as its count bytes, no
\* child, macro or language element is read or stored unless the bytes after
\* the counts cover the whole declared region; otherwise the decoder fails
\* before it reads an element.
C23_RegionCheckedUpFront ==
    last.op = "parse_object"
    => /\ ElementRead => RegionCovered
       /\ (~RegionCovered /\ last.ret # "crash") => last.ret = "false"

----------------------------------------------------------------------------
(* Claims about diagnostics, frames and identity *)

\* the last call was a parse, get_object, get_attribute or change_attribute
\* call that failed
Failing ==
    \/ last.op \in {"parse", "parse_object", "change_attribute"}
         /\ last.ret = "false"
    \/ last.op = "get_object" /\ last.ret = "null"
    \/ AttributeRead /\ ~InTable

\* C24: every failing call of parse, get_object, get_attribute or
\* change_attribute logs at least one Error before it returns.
C24_FailureLogsError == Failing => last.errs >= 1

\* a setter was called on an object that has a mutating callback
MutatingCallback ==
    /\ last.op = "change_background_colour"
    /\ \E k \in 1..Len(PreTarget.objectChangedCallbacks) :
           PreTarget.objectChangedCallbacks[k] = Recolour

\* C25: a mutation of an object made from inside a callback that runs for a
\* mutation of the same object is rejected: the object keeps the value the
\* outer call set, and no nested round of notifications starts, so each
\* registered callback is called once.
C25_ReentrantMutationRejected ==
    MutatingCallback
    => /\ PostTarget.backgroundColour = last.arg[1]
       /\ last.notified = call_object_changed_callbacks(PreTarget)

\* the fields a mutation call names: the field behind the attribute ID of a
\* change_attribute, the field a setter is named after
NamedFields ==
    CASE last.op = "change_background_colour" -> {"backgroundColour"}
      [] last.op = "change_active_mask" -> {"activeMask"}
      [] last.op = "change_soft_key_mask" -> {"softKeyMask"}
      [] last.op = "change_size" -> {"width", "height"}
      [] last.op \in ChildOps -> {"childObjects"}
      [] last.op = "change_attribute" ->
           CASE PreTarget.type \in {DataMask, AlarmMask}
                /\ last.arg[1] = DataMask_BackgroundColour ->
                    {"backgroundColour"}
             [] PreTarget.type \in {DataMask, AlarmMask}
                /\ last.arg[1] = DataMask_SoftKeyMask -> {"softKeyMask"}
             [] PreTarget.type = AlarmMask
                /\ last.arg[1] = AlarmMask_Priority -> {"priority"}
             [] PreTarget.type = Container /\ last.arg[1] = Container_Width ->
                    {"width"}
             [] PreTarget.type = Container
                /\ last.arg[1] = Container_Height -> {"height"}
             [] PreTarget.type = Container
                /\ last.arg[1] = Container_Hidden -> {"hidden"}
             [] PreTarget.type = SoftKeyMask
                /\ last.arg[1] = SoftKeyMask_BackgroundColour ->
                    {"backgroundColour"}
             [] OTHER -> {}

\* C26: a mutation call on an object, successful or failing, leaves the
\* object's ID, the keys of the registry, every other object, the callback
\* lists of all objects and the version of the pool unchanged; a failing call
\* changes no field of the object, a successful one only the fields the
\* operation names.
C26_MutationFrame ==
    last.op \in MutationOps
    => /\ PostTarget.objectID = PreTarget.objectID
       /\ DOMAIN objects = DOMAIN last.preObjects
       /\ \A id \in DOMAIN objects :
              last.target # Pooled(id) => objects[id] = last.preObjects[id]
       /\ last.target # Solo => solo = last.preSolo
       /\ PostTarget.objectChangedCallbacks
            = PreTarget.objectChangedCallbacks
       /\ versionHash = last.preVersion
       /\ \A f \in DOMAIN PreTarget :
              (~Succeeded \/ f \notin NamedFields)
              => PostTarget[f] = PreTarget[f]

\* change_size on a directly constructed container that has callbacks
\* registered, beside two objects held by the pool
C26_Witness ==
    /\ last.op = "change_size"
    /\ last.ret = "true"
    /\ Cardinality(DOMAIN objects) = 2
    /\ solo # NoObject
    /\ PreTarget.objectChangedCallbacks # <<>>
    /\ PostTarget.width # PreTarget.width
    /\ PostTarget.hidden = PreTarget.hidden

\* the coordinates the last call asks for the child <<id, x, y>>
NewCoordinates(entry) ==
    IF last.op = "change_child_position"
    THEN <<entry[1], last.arg[2], last.arg[3]>>
    ELSE <<entry[1], (entry[2] + last.arg[2]) % 65536,
           (entry[3] + last.arg[3]) % 65536>>

\* C28: change_child_position and change_child_location for a child the
\* object does not have change nothing and call no callback; for a child it
\* has they set that child's coordinates (to (x, y), or to the old ones plus
\* (dx, dy) modulo 2^16), leave the other children, the set of children and
\* every other field as they were, and call each callback once.
C28_ChildCoordinates ==
    last.op \in ChildOps
    => IF ~MapHas(PreTarget.childObjects, last.arg[1])
       THEN PostTarget = PreTarget /\ last.notified = <<>>
       ELSE /\ Len(PostTarget.childObjects) = Len(PreTarget.childObjects)
            /\ \A k \in 1..Len(PreTarget.childObjects) :
                   PostTarget.childObjects[k] =
                       IF PreTarget.childObjects[k][1] = last.arg[1]
                       THEN NewCoordinates(PreTarget.childObjects[k])
                       ELSE PreTarget.childObjects[k]
            /\ \A f \in DOMAIN PreTarget \ {"childObjects"} :
                   PostTarget[f] = PreTarget[f]
            /\ last.notified = call_object_changed_callbacks(PreTarget)

\* change_child_location(1, 65535, 1) on an object with two children and
\* one callback: the x coordinate of child 1 wraps around
C28_Witness ==
    /\ last.op = "change_child_location"
    /\ Len(PreTarget.childObjects) = 2
    /\ \E k \in 1..2 :
           /\ PreTarget.childObjects[k][1] = last.arg[1]
           /\ PreTarget.childObjects[k][2] + last.arg[2] >= 65536
           /\ PostTarget.childObjects[k][2]
                = PreTarget.childObjects[k][2] + last.arg[2] - 65536
    /\ Len(last.notified) = 1

\* get_object(id) returns an object now, and after the step it returns the
\* instance it returns now
SameInstance(id) ==
    get_object(objects, id).obj # NoObject
    => /\ get_object(objects', id).obj # NoObject
       /\ get_object(objects', id).obj.inst = get_object(objects, id).obj.inst

\* C27: objects are created once and never replaced: an ID for which
\* get_object has returned an object yields the same object instance in
\* every later get_object, whatever parse calls are made between the two.
C27_ObjectsNeverReplaced == [][\A id \in QueryIds : SameInstance(id)]_vars

\* C29: ObjectPool::parse terminates on every buffer: it returns true or
\* false; it returns true only with the cursor exactly at the end of the
\* buffer, reached record by record without a read past the end; for the
\* empty buffer it returns true and registers nothing.
C29_ParseTerminates ==
    last.op = "parse"
    => /\ last.ret \in {"true", "false"}
       /\ last.ret = "true"
            => /\ last.it = Len(last.input.bytes) + 1
               /\ last.it = Len(EncodePool(last.input.recs)) + 1
               /\ ~last.oob
       /\ last.input.bytes = <<>>
            => last.ret = "true" /\ objects = last.preObjects

====
